---- MODULE Spec2Model ----
(***************************************************************************)
(* Model of dace/transformation/interstate/loop_detection.py:              *)
(* DetectLoop (expressions, can_be_applied, match_to_str, apply) and       *)
(* find_for_loop, over a state machine (SDFG) whose nodes are states and   *)
(* whose edges carry assignments and a condition.                          *)
(***************************************************************************)
EXTENDS Integers, Sequences, FiniteSets, TLC

VARIABLES sdfg, last

vars == <<sdfg, last>>

(* ---------------------------- bounds ----------------------------------- *)

\* number of optional transitions present in a graph of the topology family
MaxOptEdges == 4

\* number of terms of an assignment's right-hand side in the extraction family
MaxTerms == 2

(* ---------------------- symbolic expressions --------------------------- *)

\* names that occur in assignments and conditions
Symbols == {"i", "j", "N"}

\* sympy keeps a linear expression in canonical form: an integer constant
\* plus one integer coefficient per symbol
Integer(k) == [const |-> k, coef |-> [s \in Symbols |-> 0]]

symbol(name) == [const |-> 0, coef |-> [s \in Symbols |-> IF s = name THEN 1 ELSE 0]]

Add(x, y) == [const |-> x.const + y.const,
              coef  |-> [s \in Symbols |-> x.coef[s] + y.coef[s]]]

Sub(x, y) == [const |-> x.const - y.const,
              coef  |-> [s \in Symbols |-> x.coef[s] - y.coef[s]]]

free_symbols(x) == {s \in Symbols : x.coef[s] # 0}

\* the text of an expression is a sum of terms; a term is k*sym, or the
\* integer literal k when sym = ""
Lit(k) == [sym |-> "", k |-> k]

Var(s) == [sym |-> s, k |-> 1]

Minus(s) == [sym |-> s, k |-> -1]

Term(t) == IF t.sym = "" THEN Integer(t.k)
           ELSE [const |-> 0, coef |-> [s \in Symbols |-> IF s = t.sym THEN t.k ELSE 0]]

RECURSIVE pystr_to_symbolic(_)
pystr_to_symbolic(src) ==
    IF src = <<>> THEN Integer(0)
    ELSE Add(Term(Head(src)), pystr_to_symbolic(Tail(src)))

\* sympy's Not of a relation is the complementary relation
Negation == [lt |-> "ge", le |-> "gt", gt |-> "le", ge |-> "lt",
             eq |-> "ne", ne |-> "eq", true |-> "false", false |-> "true"]

Not(c) == [c EXCEPT !.op = Negation[c.op]]

\* the text of a condition: [not] lhs op rhs; the default condition is "1"
Cond(neg, op, lhs, rhs) == [neg |-> neg, op |-> op, lhs |-> lhs, rhs |-> rhs]

DefaultCondition == Cond(FALSE, "true", <<>>, <<>>)

condition_sympy(e) ==
    LET c == e.condition
        r == [op |-> c.op, lhs |-> pystr_to_symbolic(c.lhs),
              rhs |-> pystr_to_symbolic(c.rhs)]
    IN  IF c.neg THEN Not(r) ELSE r

\* match that does not compare the left argument with itersym
matchAnyLeft(condition, op, itersym) ==
    IF condition.op = op
    THEN [ok |-> TRUE, a |-> condition.rhs]
    ELSE [ok |-> FALSE, a |-> Integer(0)]

\* condition.match(itersym OP a) with a = sp.Wild('a'): same relation class,
\* left argument identical to itersym, the wildcard binds the right argument
NoMatch == [ok |-> FALSE, a |-> Integer(0)]

match(condition, op, itersym) ==
    IF condition.op = op /\ condition.lhs = itersym
    THEN [ok |-> TRUE, a |-> condition.rhs]
    ELSE NoMatch

(* ------------------------------ graph ---------------------------------- *)

Range(seq) == {seq[k] : k \in DOMAIN seq}

RECURSIVE Reverse(_)
Reverse(seq) == IF seq = <<>> THEN <<>> ELSE Append(Reverse(Tail(seq)), Head(seq))

\* an assignment map is a sequence of [name, value] with distinct names
Asg(name, value) == [name |-> name, value |-> value]

Keys(assignments) == [k \in DOMAIN assignments |-> assignments[k].name]

HasKey(assignments, name) == \E k \in DOMAIN assignments : assignments[k].name = name

Lookup(assignments, name) ==
    assignments[CHOOSE k \in DOMAIN assignments : assignments[k].name = name].value

InterstateEdge(src, dst, assignments, condition) ==
    [src |-> src, dst |-> dst, assignments |-> assignments, condition |-> condition]

in_edges(G, n) == SelectSeq(G.edges, LAMBDA e : e.dst = n)

out_edges(G, n) == SelectSeq(G.edges, LAMBDA e : e.src = n)

edges_between(G, u, v) == SelectSeq(G.edges, LAMBDA e : e.src = u /\ e.dst = v)

\* nodes reached from `seen` when the nodes of `stop` are not expanded
RECURSIVE Closure(_, _, _)
Closure(G, seen, stop) ==
    LET next == seen \cup {e.dst : e \in {x \in Range(G.edges) : x.src \in seen \ stop}}
    IN  IF next = seen THEN seen ELSE Closure(G, next, stop)

\* sdutil.dfs_conditional(sdfg, sources=[begin], condition=child != guard):
\* forward traversal from begin that does not expand past guard
dfs_conditional(G, begin, guard) == Closure(G, {begin}, {guard})

Reachable(G) == Closure(G, {G.start}, {})

\* nodes reachable from src along paths that never touch d
ReachAvoiding(G, src, d) == IF src = d THEN {} ELSE Closure(G, {src}, {d}) \ {d}

Dominates(G, d, n) ==
    /\ n \in Reachable(G)
    /\ (d = n \/ n \notin ReachAvoiding(G, G.start, d))

StrictDominators(G, n) == {d \in Reachable(G) \ {n} : Dominates(G, d, n)}

\* nx.dominance.immediate_dominators(G, start): defined on the nodes reachable
\* from start; start maps to itself
immediate_dominators(G) ==
    [n \in Reachable(G) |->
        IF n = G.start THEN n
        ELSE CHOOSE d \in StrictDominators(G, n) :
                 \A d2 \in StrictDominators(G, n) : Dominates(G, d2, d)]

(* --------------------------- DetectLoop --------------------------------- *)

\* the placeholder states shared by the two pattern graphs
PatternNodes == {"_loop_guard", "_loop_begin", "_exit_state"}

\* DetectLoop.expressions(): case 1, loop with one state; case 2, loop with
\* multiple states (no back-edge from the first state)
expressions ==
    << { <<"_loop_guard", "_loop_begin">>, <<"_loop_guard", "_exit_state">>,
         <<"_loop_begin", "_loop_guard">> },
       { <<"_loop_guard", "_loop_begin">>, <<"_loop_guard", "_exit_state">> } >>

\* the matches of a pattern graph: three distinct states of the graph that
\* carry the pattern's transitions
Candidates(G) ==
    {c \in [PatternNodes -> G.nodes] :
        /\ \A p, q \in PatternNodes : p # q => c[p] # c[q]
        /\ \E t \in DOMAIN expressions :
              \A pq \in expressions[t] : edges_between(G, c[pq[1]], c[pq[2]]) # <<>>}

\* outcomes of a call
RTrue == [kind |-> "True"]

RFalse == [kind |-> "False"]

RNone == [kind |-> "None"]

\* an exception that leaves the call (IndexError, KeyError)
Fault == [kind |-> "Fault"]

\* the checks on the guard's transitions without the comparison of the two
\* outgoing conditions
ShapeChecksNoNegation(G, guard) ==
    LET guard_inedges  == in_edges(G, guard)
        guard_outedges == out_edges(G, guard)
    IN  IF Len(guard_inedges) # 2 THEN FALSE
        ELSE IF Len(guard_outedges) # 2 THEN FALSE
        ELSE IF \/ Len(guard_inedges[1].assignments) # 1
                \/ Len(guard_inedges[2].assignments) # 1 THEN FALSE
        ELSE IF ~HasKey(guard_inedges[2].assignments,
                        Keys(guard_inedges[1].assignments)[1]) THEN FALSE
        ELSE IF \E k \in DOMAIN guard_outedges :
                    Len(guard_outedges[k].assignments) > 0 THEN FALSE
        ELSE TRUE

\* can_be_applied, the checks on the guard's transitions; FALSE when one of
\* the early returns fires
ShapeChecks(G, guard) ==
    LET guard_inedges  == in_edges(G, guard)
        guard_outedges == out_edges(G, guard)
    IN  IF Len(guard_inedges) # 2 THEN FALSE
        ELSE IF Len(guard_outedges) # 2 THEN FALSE
        ELSE IF \/ Len(guard_inedges[1].assignments) # 1
                \/ Len(guard_inedges[2].assignments) # 1 THEN FALSE
        ELSE IF ~HasKey(guard_inedges[2].assignments,
                        Keys(guard_inedges[1].assignments)[1]) THEN FALSE
        ELSE IF \E k \in DOMAIN guard_outedges :
                    Len(guard_outedges[k].assignments) > 0 THEN FALSE
        ELSE IF condition_sympy(guard_outedges[1])
                    # Not(condition_sympy(guard_outedges[2])) THEN FALSE
        ELSE TRUE

\* the walk without the else branch: no node is ever rejected
DominatorWalkNoElse(dominators, guard, dom) == TRUE

\* the while/else walk up the dominator tree: TRUE on break (guard reached),
\* FALSE when the loop condition fails and the else branch returns False
RECURSIVE DominatorWalk(_, _, _)
DominatorWalk(dominators, guard, dom) ==
    IF dom = dominators[dom] THEN FALSE
    ELSE IF dom = guard THEN TRUE
    ELSE DominatorWalk(dominators, guard, dominators[dom])

\* can_be_applied, the dominance part.  begin is the first node visited; when
\* begin has an entry in dominators so has every node visited after it, so
\* the only lookup that can fail is the one for begin.
DominanceChecks(G, guard, begin) ==
    LET dominators == immediate_dominators(G)
        loop_nodes == dfs_conditional(G, begin, guard)
        backedge_found ==
            \E node \in loop_nodes : \E e \in Range(out_edges(G, node)) : e.dst = guard
    IN  IF \E node \in loop_nodes : node \notin DOMAIN dominators THEN Fault
        ELSE IF \E node \in loop_nodes : ~DominatorWalk(dominators, guard, node) THEN RFalse
        ELSE IF ~backedge_found THEN RFalse
        ELSE RTrue

can_be_applied(G, candidate) ==
    LET guard == candidate["_loop_guard"]
        begin == candidate["_loop_begin"]
    IN  IF ~ShapeChecks(G, guard) THEN RFalse
        ELSE DominanceChecks(G, guard, begin)

match_to_str(G, candidate) ==
    LET guard == candidate["_loop_guard"]
        begin == candidate["_loop_begin"]
        sexit == candidate["_exit_state"]
        guard_inedges == in_edges(G, guard)
    IN  IF guard_inedges = <<>> THEN Fault
        ELSE IF guard_inedges[1].assignments = <<>> THEN Fault
        ELSE [kind |-> "str",
              text |-> <<guard, " -> ", begin, " -> ", sexit, " (for loop over \"",
                         Keys(guard_inedges[1].assignments)[1], "\")">>]

(* --------------------------- find_for_loop ------------------------------ *)

\* stride taken as the increment expression itself
StartAndStrideNoSubtraction(a0, a1, itervar) ==
    IF /\ itervar \in free_symbols(pystr_to_symbolic(a0))
       /\ itervar \notin free_symbols(pystr_to_symbolic(a1))
    THEN [ok |-> TRUE, stride |-> pystr_to_symbolic(a0), start |-> pystr_to_symbolic(a1)]
    ELSE IF /\ itervar \in free_symbols(pystr_to_symbolic(a1))
            /\ itervar \notin free_symbols(pystr_to_symbolic(a0))
    THEN [ok |-> TRUE, stride |-> pystr_to_symbolic(a1), start |-> pystr_to_symbolic(a0)]
    ELSE [ok |-> FALSE, stride |-> Integer(0), start |-> Integer(0)]

\* the second branch reads start from the same transition as the first
StartAndStrideSameStart(a0, a1, itervar) ==
    LET itersym == symbol(itervar)
    IN  IF /\ itervar \in free_symbols(pystr_to_symbolic(a0))
           /\ itervar \notin free_symbols(pystr_to_symbolic(a1))
        THEN [ok |-> TRUE, stride |-> Sub(pystr_to_symbolic(a0), itersym),
              start |-> pystr_to_symbolic(a1)]
        ELSE IF /\ itervar \in free_symbols(pystr_to_symbolic(a1))
                /\ itervar \notin free_symbols(pystr_to_symbolic(a0))
        THEN [ok |-> TRUE, stride |-> Sub(pystr_to_symbolic(a1), itersym),
              start |-> pystr_to_symbolic(a1)]
        ELSE [ok |-> FALSE, stride |-> Integer(0), start |-> Integer(0)]

\* "Find starting expression and stride": a0, a1 are the texts assigned to
\* itervar on the first and on the second incoming transition of the guard
StartAndStride(a0, a1, itervar) ==
    LET itersym == symbol(itervar)
    IN  IF /\ itervar \in free_symbols(pystr_to_symbolic(a0))
           /\ itervar \notin free_symbols(pystr_to_symbolic(a1))
        THEN [ok |-> TRUE, stride |-> Sub(pystr_to_symbolic(a0), itersym),
              start |-> pystr_to_symbolic(a1)]
        ELSE IF /\ itervar \in free_symbols(pystr_to_symbolic(a1))
                /\ itervar \notin free_symbols(pystr_to_symbolic(a0))
        THEN [ok |-> TRUE, stride |-> Sub(pystr_to_symbolic(a1), itersym),
              start |-> pystr_to_symbolic(a0)]
        ELSE [ok |-> FALSE, stride |-> Integer(0), start |-> Integer(0)]

\* the strict templates without the adjustment by one
EndOfNoAdjust(condition, itersym) ==
    LET none == [ok |-> FALSE, end |-> Integer(0)]
        m1 == match(condition, "lt", itersym)
        e1 == IF m1.ok THEN [ok |-> TRUE, end |-> m1.a] ELSE none
        m2 == match(condition, "le", itersym)
        e2 == IF ~e1.ok /\ m2.ok THEN [ok |-> TRUE, end |-> m2.a] ELSE e1
        m3 == match(condition, "gt", itersym)
        e3 == IF ~e2.ok /\ m3.ok THEN [ok |-> TRUE, end |-> m3.a] ELSE e2
        m4 == match(condition, "ge", itersym)
        e4 == IF ~e3.ok /\ m4.ok THEN [ok |-> TRUE, end |-> m4.a] ELSE e3
    IN  e4

\* "Find condition by matching expressions"; ok = FALSE stands for end = None
EndOf(condition, itersym) ==
    LET none == [ok |-> FALSE, end |-> Integer(0)]
        m1 == match(condition, "lt", itersym)
        e1 == IF m1.ok THEN [ok |-> TRUE, end |-> Sub(m1.a, Integer(1))] ELSE none
        m2 == match(condition, "le", itersym)
        e2 == IF ~e1.ok /\ m2.ok THEN [ok |-> TRUE, end |-> m2.a] ELSE e1
        m3 == match(condition, "gt", itersym)
        e3 == IF ~e2.ok /\ m3.ok THEN [ok |-> TRUE, end |-> Add(m3.a, Integer(1))] ELSE e2
        m4 == match(condition, "ge", itersym)
        e4 == IF ~e3.ok /\ m4.ok THEN [ok |-> TRUE, end |-> m4.a] ELSE e3
    IN  e4

find_for_loop(G, guard, entry) ==
    LET guard_inedges == in_edges(G, guard)
        between == edges_between(G, guard, entry)
    IN  IF between = <<>> THEN Fault
        ELSE IF guard_inedges = <<>> THEN Fault
        ELSE IF guard_inedges[1].assignments = <<>> THEN Fault
        ELSE
          LET condition_edge == between[1]
              itervar == Keys(guard_inedges[1].assignments)[1]
          IN  IF Len(guard_inedges) < 2 THEN Fault
              ELSE IF ~HasKey(guard_inedges[2].assignments, itervar) THEN Fault
              ELSE
                LET condition == condition_sympy(condition_edge)
                    ss == StartAndStride(Lookup(guard_inedges[1].assignments, itervar),
                                         Lookup(guard_inedges[2].assignments, itervar),
                                         itervar)
                    e  == EndOf(condition, symbol(itervar))
                IN  IF ~ss.ok THEN RNone
                    ELSE IF ~e.ok THEN RNone
                    ELSE [kind |-> "tuple", itervar |-> itervar, start |-> ss.start,
                          end |-> e.end, stride |-> ss.stride]

(* ------------------------------ calls ---------------------------------- *)

NoCandidate == [p \in PatternNodes |-> ""]

Call(op, candidate, result) == [op |-> op, candidate |-> candidate, result |-> result]

CallCanBeApplied(c) ==
    /\ last' = Call("can_be_applied", c, can_be_applied(sdfg, c))
    /\ UNCHANGED sdfg

CallMatchToStr(c) ==
    /\ last' = Call("match_to_str", c, match_to_str(sdfg, c))
    /\ UNCHANGED sdfg

\* an apply that rewrites the graph: it removes the first transition listed
CallApplyRewrites(c) ==
    /\ last' = [op |-> "apply", candidate |-> c, result |-> RNone]
    /\ sdfg' = [sdfg EXCEPT !.edges = Tail(@)]

\* apply(self, sdfg): pass
CallApply(c) ==
    /\ last' = Call("apply", c, RNone)
    /\ UNCHANGED sdfg

CallFindForLoop(c) ==
    /\ last' = Call("find_for_loop", c,
                    find_for_loop(sdfg, c["_loop_guard"], c["_loop_begin"]))
    /\ UNCHANGED sdfg

Next ==
    \E c \in Candidates(sdfg) :
        \/ CallCanBeApplied(c)
        \/ CallMatchToStr(c)
        \/ CallApply(c)
        \/ CallFindForLoop(c)

(* --------------------------- input graphs ------------------------------ *)

Nodes == {"init", "guard", "begin", "exit", "body"}

SDFG(start, edges) == [nodes |-> Nodes, start |-> start, edges |-> edges]

ContinueCondition == Cond(FALSE, "lt", <<Var("i")>>, <<Lit(10)>>)

ExitCondition == Cond(TRUE, "lt", <<Var("i")>>, <<Lit(10)>>)

InitAssignment == <<Asg("i", <<Lit(0)>>)>>

IncrementAssignment == <<Asg("i", <<Var("i"), Lit(1)>>)>>

\* the transition u -> v of the for-loop idiom: transitions into the guard
\* set the iteration variable, the guard's transitions to begin and to exit
\* carry the loop condition and its negation
LoopEdge(u, v) ==
    IF v = "guard"
    THEN InterstateEdge(u, v, IF u = "init" THEN InitAssignment ELSE IncrementAssignment,
                        DefaultCondition)
    ELSE IF u = "guard" /\ v = "begin" THEN InterstateEdge(u, v, <<>>, ContinueCondition)
    ELSE IF u = "guard" /\ v = "exit" THEN InterstateEdge(u, v, <<>>, ExitCondition)
    ELSE InterstateEdge(u, v, <<>>, DefaultCondition)

OptionalEdges ==
    << <<"init", "guard">>, <<"init", "begin">>, <<"init", "exit">>, <<"init", "body">>,
       <<"begin", "guard">>, <<"begin", "exit">>, <<"begin", "body">>,
       <<"body", "guard">>, <<"body", "exit">>,
       <<"exit", "guard">>,
       <<"guard", "body">> >>

TopologyEdges(chosen) ==
    LET seq == << <<"guard", "begin">>, <<"guard", "exit">> >>
                   \o SelectSeq(OptionalEdges, LAMBDA p : p \in chosen)
    IN  [k \in DOMAIN seq |-> LoopEdge(seq[k][1], seq[k][2])]

NoCall == Call("none", NoCandidate, RNone)

\* every graph over Nodes that has the guard's two outgoing transitions and at
\* most MaxOptEdges further transitions, started at init or at the guard
Init ==
    /\ \E chosen \in SUBSET Range(OptionalEdges) :
          /\ Cardinality(chosen) <= MaxOptEdges
          /\ \E start \in {"init", "guard"} :
                sdfg = SDFG(start, TopologyEdges(chosen))
    /\ last = NoCall

Spec == Init /\ [][Next]_vars

\* graphs that vary what the guard's transitions carry: the transitions into
\* the guard are absent or carry one of a few assignment maps, the guard's
\* transitions to begin and exit carry an assignment map and a condition,
\* and the guard may have a third outgoing transition
ShapeConditions ==
    { ContinueCondition, ExitCondition, DefaultCondition,
      Cond(FALSE, "ge", <<Var("i")>>, <<Lit(10)>>),
      Cond(FALSE, "gt", <<Var("i")>>, <<Lit(10)>> ) }

Optional(u, v, maps) ==
    {<<>>} \cup {<<InterstateEdge(u, v, m, DefaultCondition)>> : m \in maps}

GuardOut(v, conditions) ==
    {InterstateEdge("guard", v, m, c) :
        m \in {<<>>, InitAssignment}, c \in conditions}

InitShape ==
    /\ \E e1 \in Optional("init", "guard",
                          { <<>>, InitAssignment, <<Asg("j", <<Lit(0)>>)>>,
                            <<Asg("i", <<Lit(0)>>), Asg("j", <<Lit(0)>>)>> }),
          e2 \in Optional("begin", "guard",
                          { <<>>, IncrementAssignment,
                            <<Asg("j", <<Var("j"), Lit(1)>>)>> }),
          e3 \in Optional("body", "guard", {IncrementAssignment}),
          e4 \in GuardOut("begin", ShapeConditions),
          e5 \in GuardOut("exit", ShapeConditions \ {DefaultCondition}),
          e6 \in Optional("guard", "body", {<<>>}) :
          sdfg = SDFG("init", e1 \o e2 \o e3 \o <<e4, e5>> \o e6)
    /\ last = NoCall

SpecShape == InitShape /\ [][Next]_vars

\* graphs of the for-loop idiom that vary the two assigned expressions, the
\* loop condition and the order in which the graph lists the guard's two
\* incoming transitions
Atoms == {Var("i"), Minus("i"), Lit(1), Lit(0), Var("N")}

Texts(n) == UNION {[1..k -> Atoms] : k \in 1..n}

SomeConditions ==
    { ContinueCondition,
      Cond(FALSE, "ge", <<Var("i")>>, <<Lit(0)>>),
      Cond(FALSE, "lt", <<Var("j")>>, <<Lit(10)>>),
      Cond(FALSE, "eq", <<Var("i")>>, <<Lit(10)>>) }

AllConditions ==
    {Cond(neg, op, <<Var(v)>>, rhs) :
        neg \in BOOLEAN, op \in {"lt", "le", "gt", "ge", "eq", "ne"}, v \in {"i", "j"},
        rhs \in { <<Lit(10)>>, <<Lit(0)>>, <<Var("N")>>, <<Var("N"), Lit(-1)>> }}

ForLoop(a_init, a_back, c, back_first) ==
    LET e_init == InterstateEdge("init", "guard", <<Asg("i", a_init)>>, DefaultCondition)
        e_back == InterstateEdge("begin", "guard", <<Asg("i", a_back)>>, DefaultCondition)
        e_loop == InterstateEdge("guard", "begin", <<>>, c)
        e_exit == InterstateEdge("guard", "exit", <<>>, [c EXCEPT !.neg = ~c.neg])
    IN  SDFG("init", (IF back_first THEN <<e_back, e_init>> ELSE <<e_init, e_back>>)
                     \o <<e_loop, e_exit>>)

InitExtract ==
    /\ \E back_first \in BOOLEAN :
          \/ \E a_back \in Texts(MaxTerms), a_init \in Texts(1), c \in SomeConditions :
                sdfg = ForLoop(a_init, a_back, c, back_first)
          \/ \E c \in AllConditions :
                sdfg = ForLoop(<<Lit(0)>>, <<Var("i"), Lit(1)>>, c, back_first)
    /\ last = NoCall

SpecExtract == InitExtract /\ [][Next]_vars

(* ------------------------- properties ---------------------------------- *)

guard == last.candidate["_loop_guard"]

entry == last.candidate["_loop_begin"]

exit == last.candidate["_exit_state"]

Validated == last.op = "can_be_applied" /\ last.result = RTrue

Extracted == last.op = "find_for_loop"

\* truth of a parsed condition when lhs - rhs has the sign d
Truth(c, d) ==
    CASE c.op = "lt" -> d < 0
      [] c.op = "le" -> d <= 0
      [] c.op = "gt" -> d > 0
      [] c.op = "ge" -> d >= 0
      [] c.op = "eq" -> d = 0
      [] c.op = "ne" -> d # 0
      [] c.op = "true" -> TRUE
      [] OTHER -> FALSE

\* two conditions over the same two operands, one true exactly where the
\* other is false
ExactNegations(e1, e2) ==
    LET c1 == condition_sympy(e1)
        c2 == condition_sympy(e2)
    IN  /\ c1.lhs = c2.lhs
        /\ c1.rhs = c2.rhs
        /\ \A d \in {-1, 0, 1} : Truth(c1, d) # Truth(c2, d)

\* both incoming transitions of g assign exactly one variable, the same one
SameSingleVariable(G, g) ==
    LET ins == in_edges(G, g)
    IN  /\ Len(ins) = 2
        /\ \A k \in 1..2 : Len(ins[k].assignments) = 1
        /\ ins[1].assignments[1].name = ins[2].assignments[1].name

GuardShape(G, g) ==
    LET outs == out_edges(G, g)
    IN  /\ SameSingleVariable(G, g)
        /\ Len(outs) = 2
        /\ \A k \in 1..2 : outs[k].assignments = <<>>
        /\ ExactNegations(outs[1], outs[2])

\* C1: whenever can_be_applied returns True, the guard has exactly two
\* incoming and two outgoing transitions, both incoming transitions assign
\* exactly one variable and the same one, no outgoing transition assigns
\* anything, and the two outgoing conditions are exact negations.
C1_AcceptedGuardShape == Validated => GuardShape(sdfg, guard)

C1_Witness == Validated /\ GuardShape(sdfg, guard) /\ Len(sdfg.edges) = 4

\* C2: when the edge-shape checks pass and some node reachable from entry
\* without passing through guard is in the dominator tree but not dominated
\* by guard, can_be_applied returns False.
C2_Escaping ==
    \E n \in ReachAvoiding(sdfg, entry, guard) :
        n \in Reachable(sdfg) /\ ~Dominates(sdfg, guard, n)

C2_NotDominatedRejected ==
    (last.op = "can_be_applied" /\ GuardShape(sdfg, guard) /\ C2_Escaping)
        => last.result = RFalse

\* the canonical loop: i := 0 from init, i := i + 1 from entry, i < 10 to
\* entry, not(i < 10) to exit
Canonical ==
    /\ sdfg.start = "init"
    /\ Range(sdfg.edges) = { LoopEdge("init", "guard"), LoopEdge("begin", "guard"),
                             LoopEdge("guard", "begin"), LoopEdge("guard", "exit") }
    /\ guard = "guard" /\ entry = "begin" /\ exit = "exit"

\* C3: on the canonical loop can_be_applied returns True and find_for_loop
\* returns ("i", (0, 9, 1)).
C3_CanonicalLoop ==
    Canonical =>
        /\ last.op = "can_be_applied" => last.result = RTrue
        /\ Extracted =>
              last.result = [kind |-> "tuple", itervar |-> "i", start |-> Integer(0),
                             end |-> Integer(9), stride |-> Integer(1)]

C3_Witness == Canonical /\ Extracted /\ last.result.kind = "tuple"

\* the loop condition as find_for_loop reads it
LoopCondition == condition_sympy(edges_between(sdfg, guard, entry)[1])

\* the variable set on the way into the guard and the two assigned texts
LoopVariable == in_edges(sdfg, guard)[1].assignments[1].name

Assigned(k) == pystr_to_symbolic(in_edges(sdfg, guard)[k].assignments[1].value)

Updates(k) == LoopVariable \in free_symbols(Assigned(k))

Comparisons == {"lt", "le", "gt", "ge"}

\* an initialization and an increment on the way in, a comparison of the
\* variable with a bound on the way to entry
C4_Case ==
    /\ Extracted
    /\ SameSingleVariable(sdfg, guard)
    /\ Updates(1) # Updates(2)
    /\ LoopCondition.op \in Comparisons
    /\ LoopCondition.lhs = symbol(LoopVariable)

\* C4: start is the initialization expression, stride the increment
\* expression minus the variable, end the bound adjusted by the template
\* that matches: v < a gives a - 1, v <= a gives a, v > a gives a + 1,
\* v >= a gives a; i < 10 gives 9, i <= 10 gives 10, i > 0 gives 1,
\* i >= 0 gives 0, i + 1 gives stride 1.
C4_StartEndStride ==
    C4_Case =>
        LET inc == IF Updates(1) THEN 1 ELSE 2
            a == LoopCondition.rhs
            op == LoopCondition.op
            r == last.result
        IN  /\ r.kind = "tuple"
            /\ r.itervar = LoopVariable
            /\ r.start = Assigned(3 - inc)
            /\ r.stride.const = Assigned(inc).const
            /\ \A s \in Symbols :
                  r.stride.coef[s] = Assigned(inc).coef[s] - (IF s = LoopVariable THEN 1 ELSE 0)
            /\ r.end.coef = a.coef
            /\ r.end.const = a.const + (CASE op = "lt" -> -1 [] op = "gt" -> 1 [] OTHER -> 0)
            /\ (op = "lt" /\ a = Integer(10)) => r.end = Integer(9)
            /\ (op = "le" /\ a = Integer(10)) => r.end = Integer(10)
            /\ (op = "gt" /\ a = Integer(0)) => r.end = Integer(1)
            /\ (op = "ge" /\ a = Integer(0)) => r.end = Integer(0)
            /\ Assigned(inc) = Add(symbol("i"), Integer(1)) => r.stride = Integer(1)

C4_Witness ==
    /\ C4_Case
    /\ LoopCondition.op = "gt" /\ LoopCondition.rhs = Integer(0)
    /\ last.result.kind = "tuple" /\ last.result.end = Integer(1)

\* the same graph with its transitions listed in the opposite order
Swapped == [sdfg EXCEPT !.edges = Reverse(@)]

\* C5: when both incoming transitions of the guard assign the same single
\* variable, find_for_loop returns the same result whichever of the two the
\* graph lists first.
C5_OrderIndependent ==
    (Extracted /\ SameSingleVariable(sdfg, guard))
        => last.result = find_for_loop(Swapped, guard, entry)

C5_Witness ==
    /\ Extracted /\ SameSingleVariable(sdfg, guard)
    /\ in_edges(Swapped, guard) # in_edges(sdfg, guard)
    /\ last.result.kind = "tuple"
    /\ Updates(2)

\* C6: can_be_applied ends with the value True or False and never with a
\* fault.
C6_NeverFaults ==
    last.op = "can_be_applied" => last.result \in {RTrue, RFalse}

C8_AcceptanceCharacterization ==
    (last.op = "can_be_applied" /\ GuardShape(sdfg, guard)) =>
        LET visited == dfs_conditional(sdfg, entry, guard)
        IN  last.result = RTrue <=>
               /\ \A n \in visited : Dominates(sdfg, guard, n)
               /\ \E n \in visited : edges_between(sdfg, n, guard) # <<>>

\* the candidate carries no transition between entry and exit and none
\* from exit to guard
TemplateOnly ==
    /\ edges_between(sdfg, entry, exit) = <<>>
    /\ edges_between(sdfg, exit, entry) = <<>>
    /\ edges_between(sdfg, exit, guard) = <<>>

\* C10 as stated: whenever can_be_applied returns True, exit is not
\* reachable from entry without passing through guard.
C10_ExitOutsideLoop ==
    (Validated /\ TemplateOnly) => exit \notin ReachAvoiding(sdfg, entry, guard)

\* C10 amended: whenever can_be_applied returns True, exit is either not
\* reachable from entry without passing through guard, or it is a node other
\* than guard that guard dominates.
C10_ExitOutsideOrDominated ==
    Validated =>
        \/ exit \notin ReachAvoiding(sdfg, entry, guard)
        \/ exit # guard /\ Dominates(sdfg, guard, exit)

C10_Witness ==
    Validated /\ TemplateOnly /\ exit \in ReachAvoiding(sdfg, entry, guard)

\* C9: given two incoming transitions that assign the same single variable,
\* find_for_loop returns None exactly when the variable is free in both or in
\* neither assigned expression, or the loop condition is none of v < a,
\* v <= a, v > a, v >= a; otherwise it returns a complete tuple.
C9_NoneExactly ==
    (Extracted /\ SameSingleVariable(sdfg, guard)) =>
        LET ambiguous == Updates(1) = Updates(2)
            unsupported == \/ LoopCondition.op \notin Comparisons
                           \/ LoopCondition.lhs # symbol(LoopVariable)
        IN  /\ last.result = RNone <=> (ambiguous \/ unsupported)
            /\ last.result # RNone =>
                  /\ last.result.kind = "tuple"
                  /\ DOMAIN last.result = {"kind", "itervar", "start", "end", "stride"}

C9_Witness ==
    /\ Extracted /\ SameSingleVariable(sdfg, guard)
    /\ last.result = RNone
    /\ Updates(1) # Updates(2)
    /\ LoopCondition.op \in Comparisons

====
